---------------------------- MODULE Spec2Model ----------------------------
(***************************************************************************)
(* wikikit 1.1.2: the concurrent XML-dump converter.  One decoder (main),  *)
(* numWorkers workers running the selected strategy, one collector, three  *)
(* unbuffered channels (in, out, ack).                                     *)
(*                                                                         *)
(* Strings are sequences of one-character strings, so that the character   *)
(* level functions (lower-casing, escaping, the regular expressions, the   *)
(* JSON scanner) are computed and not assumed.                             *)
(***************************************************************************)
EXTENDS Integers, Sequences, FiniteSets, Bags, TLC

VARIABLES
    cflag,          \* -c: the category marker ("" when absent)
    aflag,          \* -a: the authority marker ("" when absent)
    dflag,          \* -d: decode wikidata
    numWorkers,     \* -w
    outputFilename, \* -o ("" = stdout)
    input,          \* the XML stream: its page elements and how it ends
    mainpc,         \* main's position
    idx,            \* page elements consumed by the decoder so far
    held,           \* the Page main decoded and is handing to `in`
    started,        \* loop counter of the worker-start loop
    sent,           \* loop counter of the sentinel loop
    acks,           \* loop counter of the acknowledgment loop
    wpc,            \* each worker's position
    wq,             \* each worker's lines still to send for its current page
    wnil,           \* whether the worker has received the nil sentinel
    taken,          \* ids of the records received by workers, in order
    outClosed,      \* close(out) has run
    outSent,        \* every line sent on `out`, in rendezvous order
    cpc,            \* the collector's position
    cline,          \* the line the collector received and has not yet written
    stdout,         \* lines printed to standard output
    buf,            \* lines held in the bufio.Writer
    file,           \* lines that reached the output file
    fopen,          \* the output file is open
    stderr,         \* diagnostics printed to the error stream
    ctitle,         \* CanonicalizeTitle harness: the title under test
    cres,           \* CanonicalizeTitle harness: successive results
    inputOk,        \* environment: os.Open of the input file succeeds
    createOk,       \* environment: os.Create of the output file succeeds
    inOpen,         \* the input file is open
    exitCode,       \* the exit status of the process (-1 while it runs)
    badTitles       \* environment: the titles of the records on which
                    \* json.Marshal returns an error

pipevars == <<cflag, aflag, dflag, numWorkers, outputFilename, input, mainpc,
              idx, held, started, sent, acks, wpc, wq, wnil, taken, outClosed,
              outSent, cpc, cline, stdout, buf, file, fopen, stderr,
              inputOk, createOk, badTitles, inOpen, exitCode>>
canonvars == <<ctitle, cres>>
vars == <<cflag, aflag, dflag, numWorkers, outputFilename, input, mainpc,
          idx, held, started, sent, acks, wpc, wq, wnil, taken, outClosed,
          outSent, cpc, cline, stdout, buf, file, fopen, stderr, ctitle, cres,
          inputOk, createOk, badTitles, inOpen, exitCode>>

---------------------------------------------------------------------------
(* Bounds of the model.                                                    *)

MaxWorkers == 2

MaxPages == 2

MaxTitleLen == 3

BufLines == 2

---------------------------------------------------------------------------
(* Characters and strings.                                                 *)

Upper == <<"A","B","C","D","E","F","G","H","I","J","K","L","M",
           "N","O","P","Q","R","S","T","U","V","W","X","Y","Z">>

LowerSeq == <<"a","b","c","d","e","f","g","h","i","j","k","l","m",
              "n","o","p","q","r","s","t","u","v","w","x","y","z">>

Digits == {"0","1","2","3","4","5","6","7","8","9"}

Range(s) == {s[i] : i \in 1..Len(s)}

RECURSIVE Flatten(_)
Flatten(ss) == IF ss = <<>> THEN <<>> ELSE Head(ss) \o Flatten(Tail(ss))

HasPrefix(s, p) == Len(s) >= Len(p) /\ SubSeq(s, 1, Len(p)) = p

\* unicode.ToLower on one character of the model's alphabet
LowerChar(c) ==
    IF c \in Range(Upper)
    THEN LowerSeq[CHOOSE i \in 1..Len(Upper) : Upper[i] = c]
    ELSE c

\* strings.ToLower
ToLower(s) == [i \in 1..Len(s) |-> LowerChar(s[i])]

\* strings.Replace(can, " ", "_", -1)
ReplaceSpaces(s) == [i \in 1..Len(s) |-> IF s[i] = " " THEN "_" ELSE s[i]]

\* net/url shouldEscape in query-component mode: letters, digits and - _ . ~
\* are kept, everything else is escaped.
Unreserved == Range(Upper) \cup Range(LowerSeq) \cup Digits \cup {"-", "_", ".", "~"}

\* the two upper-case hex digits of a character's byte
HexOf(c) ==
    CASE c = ":"  -> <<"3","A">>
      [] c = "%"  -> <<"2","5">>
      [] c = "+"  -> <<"2","B">>
      [] c = "|"  -> <<"7","C">>
      [] c = "["  -> <<"5","B">>
      [] c = "]"  -> <<"5","D">>
      [] c = "{"  -> <<"7","B">>
      [] c = "}"  -> <<"7","D">>
      [] c = "\t" -> <<"0","9">>

EscapeChar(c) ==
    IF c \in Unreserved THEN <<c>>
    ELSE IF c = " " THEN <<"+">>
    ELSE <<"%">> \o HexOf(c)

\* url.QueryEscape
QueryEscape(s) == Flatten([i \in 1..Len(s) |-> EscapeChar(s[i])])

\* a plausible slip: the space replacement left out
CanonicalizeTitleNoReplace(title) == QueryEscape(ToLower(title))

CanonicalizeTitle(title) == QueryEscape(ReplaceSpaces(ToLower(title)))

\* The alternatives of the filter expression; each is anchored with ^ and
\* ends in .*, so the expression matches exactly the strings that begin with
\* one of them.
FilterPrefixes ==
    { <<"f","i","l","e",":">>,
      <<"t","a","l","k",":">>,
      <<"s","p","e","c","i","a","l",":">>,
      <<"w","i","k","i","p","e","d","i","a",":">>,
      <<"w","i","k","t","i","o","n","a","r","y",":">>,
      <<"u","s","e","r",":">>,
      <<"u","s","e","r","_","t","a","l","k",":">> }

\* filter.MatchString
FilterMatch(s) == \E p \in FilterPrefixes : HasPrefix(s, p)

\* a plausible slip: the redirect test left out
EligibleNoRedirect(p) == ~FilterMatch(CanonicalizeTitle(p.title))

\* !m && p.Redir.Title == ""
Eligible(p) == ~FilterMatch(CanonicalizeTitle(p.title)) /\ p.redir = <<>>

---------------------------------------------------------------------------
(* Category-TSV: the pattern \[\[ marker :([^\[]+)\]\] and its use.         *)

SetMax(S) == CHOOSE x \in S : \A y \in S : y <= x

\* the last index of the run of characters other than `stop` that starts at s
\* (s - 1 when the run is empty)
RunEnd(text, s, stop) ==
    SetMax({j \in (s - 1)..Len(text) : \A k \in s..j : text[k] # stop})

\* The pattern tried at position i: 0 when it does not match there, else the
\* index of the last character of the captured group.  [^\[]+ is greedy, so
\* of the places where ]] follows the longest one is taken.
CategoryMatchEnd(text, i, marker) ==
    LET open == <<"[", "[">> \o marker \o <<":">>
        s    == i + Len(open)
    IN  IF ~(s - 1 <= Len(text) /\ SubSeq(text, i, s - 1) = open) THEN 0
        ELSE LET r     == RunEnd(text, s, "[")
                 cands == {e \in s..(r - 2) : text[e + 1] = "]" /\ text[e + 2] = "]"}
             IN  IF cands = {} THEN 0 ELSE SetMax(cands)

\* categoryPattern.FindAllStringSubmatch(p.Text, -1): the captured groups of
\* the successive non-overlapping matches, leftmost first
RECURSIVE FindAllCategories(_, _, _)
FindAllCategories(text, i, marker) ==
    IF i > Len(text) THEN <<>>
    ELSE LET e == CategoryMatchEnd(text, i, marker)
         IN  IF e = 0 THEN FindAllCategories(text, i + 1, marker)
             ELSE <<SubSeq(text, i + Len(marker) + 3, e)>>
                      \o FindAllCategories(text, e + 3, marker)

IsSpace(c) == c \in {" ", "\t", "\n", "\r"}

\* strings.TrimSpace
RECURSIVE TrimSpace(_)
TrimSpace(s) ==
    IF s = <<>> THEN s
    ELSE IF IsSpace(Head(s)) THEN TrimSpace(Tail(s))
    ELSE IF IsSpace(s[Len(s)]) THEN TrimSpace(SubSeq(s, 1, Len(s) - 1))
    ELSE s

\* a plausible slip: the display label left in
CutAtPipeNone(s) == s

\* firstIndex := strings.Index(category, "|"); category[0:firstIndex]
CutAtPipe(s) ==
    IF "|" \in Range(s)
    THEN SubSeq(s, 1, (CHOOSE i \in 1..Len(s) : s[i] = "|" /\ \A k \in 1..(i - 1) : s[k] # "|") - 1)
    ELSE s

\* fmt.Sprintf("%s\t%s", p.Title, x)
TsvLine(title, x) == [kind |-> "tsv", s |-> title \o <<"\t">> \o x]

\* the lines CategoryExtractor sends for one page
CategoryLines(p, marker) ==
    IF Eligible(p)
    THEN LET caps == FindAllCategories(p.text, 1, marker)
         IN  [k \in 1..Len(caps) |-> TsvLine(p.title, CutAtPipe(TrimSpace(caps[k])))]
    ELSE <<>>

---------------------------------------------------------------------------
(* Authority-TSV: the pattern (?mi){{ marker [^}]*}} and its use.           *)

\* The pattern tried at position i: 0 when it does not match there, else the
\* index of the last character of the match.  The marker is compared without
\* regard to letter case; [^}]* runs to the first closing brace, which must
\* be followed by a second one.
AuthorityMatchEnd(text, i, marker) ==
    LET open == <<"{", "{">> \o marker
        s    == i + Len(open)
    IN  IF ~(s - 1 <= Len(text) /\ ToLower(SubSeq(text, i, s - 1)) = ToLower(open)) THEN 0
        ELSE LET r == RunEnd(text, s, "}")
             IN  IF r + 2 <= Len(text) /\ text[r + 1] = "}" /\ text[r + 2] = "}"
                 THEN r + 2 ELSE 0

\* authorityDataPattern.FindString(p.Text): the leftmost match, "" if none
FindAuthority(text, marker) ==
    LET starts == {i \in 1..Len(text) : AuthorityMatchEnd(text, i, marker) # 0}
    IN  IF starts = {} THEN <<>>
        ELSE LET i == CHOOSE x \in starts : \A y \in starts : x <= y
             IN  SubSeq(text, i, AuthorityMatchEnd(text, i, marker))

\* a plausible slip: the tabs left in
StripTabsNone(s) == s

\* strings.Replace(result, "\t", "", -1)
StripTabs(s) == SelectSeq(s, LAMBDA c : c # "\t")

\* the lines AuthorityDataExtractor sends for one page
AuthorityLines(p, marker) ==
    IF Eligible(p)
    THEN LET result == FindAuthority(p.text, marker)
         IN  IF result # <<>> THEN <<TsvLine(p.title, StripTabs(result))>> ELSE <<>>
    ELSE <<>>

---------------------------------------------------------------------------
(* Wikidata-JSON: json.Decoder.Decode of the body into an interface{}.     *)
(* The scanner is modelled on bodies made of white space, digits, braces,  *)
(* brackets, upper-case letters, ':' and '|' (no quote, comma, sign, dot   *)
(* or lower-case letter), where a value is a number, {} or a nested array  *)
(* of one value; that is the whole of JSON over these characters.          *)

RECURSIVE SkipSpace(_, _)
SkipSpace(s, i) == IF i <= Len(s) /\ IsSpace(s[i]) THEN SkipSpace(s, i + 1) ELSE i

RECURSIVE DigitsEnd(_, _)
DigitsEnd(s, i) == IF i + 1 <= Len(s) /\ s[i + 1] \in Digits THEN DigitsEnd(s, i + 1) ELSE i

JsonFail == [ok |-> FALSE, next |-> 0, val |-> <<>>]

\* one value starting at or after position i; with dec.UseNumber() a number
\* keeps its digits
RECURSIVE ParseValue(_, _)
ParseValue(s, i) ==
    LET j == SkipSpace(s, i)
    IN  IF j > Len(s) THEN JsonFail
        ELSE IF s[j] = "0" THEN [ok |-> TRUE, next |-> j + 1, val |-> <<"num", <<"0">> >>]
        ELSE IF s[j] \in Digits
             THEN [ok |-> TRUE, next |-> DigitsEnd(s, j) + 1,
                   val |-> <<"num", SubSeq(s, j, DigitsEnd(s, j))>>]
        ELSE IF s[j] = "{"
             THEN LET k == SkipSpace(s, j + 1)
                  IN  IF k <= Len(s) /\ s[k] = "}"
                      THEN [ok |-> TRUE, next |-> k + 1, val |-> <<"obj">>]
                      ELSE JsonFail
        ELSE IF s[j] = "["
             THEN LET k == SkipSpace(s, j + 1)
                  IN  IF k <= Len(s) /\ s[k] = "]"
                      THEN [ok |-> TRUE, next |-> k + 1, val |-> <<"arr">>]
                      ELSE LET v == ParseValue(s, k)
                               m == SkipSpace(s, v.next)
                           IN  IF v.ok /\ m <= Len(s) /\ s[m] = "]"
                               THEN [ok |-> TRUE, next |-> m + 1, val |-> <<"arr", v.val>>]
                               ELSE JsonFail
        ELSE JsonFail

\* dec.Decode(&container): io.EOF when the body holds nothing but white
\* space, another error when the first value is malformed or cut short, else
\* the first value (what follows it is not read)
JsonDecode(text) ==
    IF SkipSpace(text, 1) > Len(text) THEN [res |-> "eof", val |-> <<>>]
    ELSE LET v == ParseValue(text, 1)
         IN  IF v.ok THEN [res |-> "ok", val |-> v.val] ELSE [res |-> "err", val |-> <<>>]

\* json.Marshal(parsed), a WikidataPage
WikidataLine(p, content) ==
    [kind |-> "wikidata", title |-> p.title, ctitle |-> CanonicalizeTitle(p.title),
     redirect |-> p.redir, content |-> content]

\* json.Marshal(p), a Page with its canonical title filled in
VanillaLine(p) ==
    [kind |-> "vanilla", title |-> p.title, ctitle |-> CanonicalizeTitle(p.title),
     redirect |-> p.redir, text |-> p.text]

\* a plausible slip: the eligibility test left out
VanillaLinesUnfiltered(p) == <<VanillaLine(p)>>

\* the lines VanillaConverter sends for one page
VanillaLines(p) == IF Eligible(p) THEN <<VanillaLine(p)>> ELSE <<>>

---------------------------------------------------------------------------
(* The inputs the model is run on.                                         *)

\* "1 [[C:A|B]][[C: B ]]{{N<TAB>A}}": a body every strategy finds something
\* in (a JSON number first, two category references, one authority template)
RichText ==
    <<"1", " ", "[", "[", "C", ":", "A", "|", "B", "]", "]",
      "[", "[", "C", ":", " ", "B", " ", "]", "]",
      "{", "{", "N", "\t", "A", "}", "}">>

\* an ordinary article
OkPage == [title |-> <<"A", " ", "b">>, redir |-> <<>>, text |-> RichText]

\* a page in an excluded namespace
FilePage == [title |-> <<"F", "i", "l", "e", ":", "A">>, redir |-> <<>>, text |-> RichText]

\* a redirect stub
RedirectPage == [title |-> <<"B">>, redir |-> <<"A", " ", "b">>, text |-> RichText]

\* an article with an empty body
EmptyPage == [title |-> <<"C">>, redir |-> <<>>, text |-> <<>>]

\* an article whose body is "[[C:", which is not JSON and holds no reference
BrokenPage == [title |-> <<"D">>, redir |-> <<>>, text |-> <<"[", "[", "C", ":">>]

\* an article whose body is "{{n<LF>A}}": a template that spans two lines and
\* whose name is written in lower case
MultilinePage == [title |-> <<"G">>, redir |-> <<>>, text |-> <<"{", "{", "n", "\n", "A", "}", "}">>]

PageKinds == {OkPage, FilePage, RedirectPage, EmptyPage, BrokenPage, MultilinePage}

\* What DecodeElement leaves in p when the stream ends inside the element's
\* <text>: the title was stored when </title> was read, the text never is.
TruncatedPage == [title |-> <<"E">>, redir |-> <<>>, text |-> <<>>]

\* How the stream ends after its complete page elements.  "nil": Token
\* returns nil, which it does at the end of the stream and at malformed
\* markup between two elements alike.  "truncated": the stream is cut short
\* or malformed inside one more page element.
Ends == {"nil", "truncated"}

Inputs == [pages : UNION {[1..k -> PageKinds] : k \in 0..MaxPages}, end : Ends]

\* the flag combinations: the four that select one strategy each, and the
\* three that name more than one
FlagCombos ==
    { [c |-> <<>>,    a |-> <<>>,    d |-> FALSE],
      [c |-> <<"C">>, a |-> <<>>,    d |-> FALSE],
      [c |-> <<>>,    a |-> <<"N">>, d |-> FALSE],
      [c |-> <<>>,    a |-> <<>>,    d |-> TRUE],
      [c |-> <<"C">>, a |-> <<"N">>, d |-> FALSE],
      [c |-> <<"C">>, a |-> <<>>,    d |-> TRUE],
      [c |-> <<>>,    a |-> <<"N">>, d |-> TRUE] }

Workers == 1..MaxWorkers

NoPage == [id |-> 0, page |-> [title |-> <<>>, redir |-> <<>>, text |-> <<>>]]

NoLine == [src |-> 0, out |-> <<>>]

\* the record with the given id: the id-th page element of the stream
PageOf(id) == IF id <= Len(input.pages) THEN input.pages[id] ELSE TruncatedPage

---------------------------------------------------------------------------
(* The workers: one pass of each worker's loop body over a page.  `lines`  *)
(* are the lines it sends, `diag` what it prints to the error stream,      *)
(* `brk` whether it leaves the loop.                                       *)

\* the if-chain that picks the worker function to start
Strategy ==
    IF cflag # <<>> THEN "category"
    ELSE IF aflag # <<>> THEN "authority"
    ELSE IF dflag THEN "wikidata"
    ELSE "vanilla"

CategoryExtractor(p) == [lines |-> CategoryLines(p, cflag), diag |-> <<>>, brk |-> FALSE]

AuthorityDataExtractor(p) == [lines |-> AuthorityLines(p, aflag), diag |-> <<>>, brk |-> FALSE]

\* b, err := json.Marshal(...) returns an error
MarshalFails(p) == p.title \in badTitles

WikidataEncoder(p) ==
    IF ~Eligible(p) THEN [lines |-> <<>>, diag |-> <<>>, brk |-> FALSE]
    ELSE LET r == JsonDecode(p.text)
         IN  IF r.res = "eof" THEN [lines |-> <<>>, diag |-> <<>>, brk |-> TRUE]
             ELSE IF r.res = "err" THEN [lines |-> <<>>, diag |-> <<"err">>, brk |-> FALSE]
             ELSE IF MarshalFails(p) THEN [lines |-> <<>>, diag |-> <<"marshal">>, brk |-> FALSE]
             ELSE [lines |-> <<WikidataLine(p, r.val)>>, diag |-> <<>>, brk |-> FALSE]

\* a plausible slip: the worker gives up at a serialization failure
VanillaConverterBreaks(p) ==
    IF Eligible(p) /\ MarshalFails(p)
    THEN [lines |-> <<>>, diag |-> <<"marshal">>, brk |-> TRUE]
    ELSE [lines |-> VanillaLines(p), diag |-> <<>>, brk |-> FALSE]

VanillaConverter(p) ==
    IF Eligible(p) /\ MarshalFails(p)
    THEN [lines |-> <<>>, diag |-> <<"marshal">>, brk |-> FALSE]
    ELSE [lines |-> VanillaLines(p), diag |-> <<>>, brk |-> FALSE]

WorkerBody(p) ==
    CASE Strategy = "category"  -> CategoryExtractor(p)
      [] Strategy = "authority" -> AuthorityDataExtractor(p)
      [] Strategy = "wikidata"  -> WikidataEncoder(p)
      [] OTHER                  -> VanillaConverter(p)

\* where the worker stands after its loop body: at ack <- true after a
\* break, at out <- &line with lines to send, else back at pp = <-in
AfterBody(r) == IF r.brk THEN "ack" ELSE IF r.lines # <<>> THEN "send" ELSE "recv"

Tag(id, ls) == [k \in 1..Len(ls) |-> [src |-> id, out |-> ls[k]]]

---------------------------------------------------------------------------
(* The state after flag parsing.                                           *)

CanonIdle == ctitle = <<>> /\ cres = <<>>

PipeStart(f, n, o, in) ==
    /\ cflag = f.c /\ aflag = f.a /\ dflag = f.d
    /\ numWorkers = n
    /\ outputFilename = o
    /\ input = in
    /\ idx = 0 /\ held = NoPage
    /\ started = 0 /\ sent = 0 /\ acks = 0
    /\ wpc = [w \in Workers |-> "off"]
    /\ wq = [w \in Workers |-> <<>>]
    /\ wnil = [w \in Workers |-> FALSE]
    /\ taken = <<>>
    /\ outClosed = FALSE /\ outSent = <<>>
    /\ cpc = "off" /\ cline = NoLine
    /\ stdout = <<>> /\ buf = <<>> /\ file = <<>> /\ fopen = FALSE
    /\ stderr = <<>>
    /\ inOpen = FALSE /\ exitCode = -1

\* whether the two files can be opened; creating the output file is tried
\* only when -o names one
Environments ==
    { e \in [o : {<<>>, <<"o">>}, inputOk : BOOLEAN, createOk : BOOLEAN] :
          e.o = <<>> => e.createOk }

Init ==
    /\ \E f \in FlagCombos, n \in 1..MaxWorkers, e \in Environments, in \in Inputs :
           /\ PipeStart(f, n, e.o, in)
           /\ inputOk = e.inputOk
           /\ createOk = e.createOk
    /\ badTitles = {}
    /\ mainpc = "flags"
    /\ CanonIdle

\* the process lives until main returns, os.Exit is called or a goroutine
\* panics
Alive == mainpc \notin {"off", "returned", "exited"}

---------------------------------------------------------------------------
(* main                                                                    *)

\* what the process prints itself
ConfigMessage == [src |-> 0, out |-> "it's either -a or -c"]

OpenMessage == [src |-> 0, out |-> [kind |-> "msg", s |-> <<"E", "r", "r", "o", "r">>]]

PanicMessage == [src |-> 0, out |-> "panic"]

\* a plausible slip: the test of the two markers left out
MainFlagsNoCheck ==
    /\ mainpc = "flags"
    /\ mainpc' = "open"
    /\ UNCHANGED <<cflag, aflag, dflag, numWorkers, outputFilename, input, idx, held,
                   started, sent, acks, wpc, wq, wnil, taken, outClosed, outSent, cpc,
                   cline, stdout, buf, file, fopen, stderr, ctitle, cres,
                   inputOk, createOk, badTitles, inOpen, exitCode>>

\* after flag.Parse(): if *extractCategories != "" && *extractAuthorityData != ""
\* { fmt.Fprintln(os.Stderr, ...); os.Exit(1) }
MainFlags ==
    /\ mainpc = "flags"
    /\ IF cflag # <<>> /\ aflag # <<>>
       THEN /\ stderr' = Append(stderr, ConfigMessage)
            /\ exitCode' = 1
            /\ mainpc' = "exited"
       ELSE /\ mainpc' = "open"
            /\ UNCHANGED <<stderr, exitCode>>
    /\ UNCHANGED <<cflag, aflag, dflag, numWorkers, outputFilename, input, idx, held,
                   started, sent, acks, wpc, wq, wnil, taken, outClosed, outSent, cpc,
                   cline, stdout, buf, file, fopen, ctitle, cres,
                   inputOk, createOk, badTitles, inOpen>>

\* xmlFile, err := os.Open(inputFile); if err != nil { fmt.Println("Error
\* opening file:", err); return }: the message goes to standard output and
\* main returns, so the exit status is 0
MainOpen ==
    /\ mainpc = "open"
    /\ IF inputOk
       THEN /\ inOpen' = TRUE
            /\ mainpc' = "startCollector"
            /\ UNCHANGED <<stdout, exitCode>>
       ELSE /\ stdout' = Append(stdout, OpenMessage)
            /\ exitCode' = 0
            /\ mainpc' = "returned"
            /\ UNCHANGED inOpen
    /\ UNCHANGED <<cflag, aflag, dflag, numWorkers, outputFilename, input, idx, held,
                   started, sent, acks, wpc, wq, wnil, taken, outClosed, outSent, cpc,
                   cline, buf, file, fopen, stderr, ctitle, cres,
                   inputOk, createOk, badTitles>>

\* go FileCollector(out, *outputFilename) / go StdoutCollector(out)
MainStartCollector ==
    /\ mainpc = "startCollector"
    /\ cpc' = IF outputFilename # <<>> THEN "create" ELSE "recv"
    /\ mainpc' = IF numWorkers <= 0 THEN "token" ELSE "startWorkers"
    /\ UNCHANGED <<cflag, aflag, dflag, numWorkers, outputFilename, input, idx, held,
                   started, sent, acks, wpc, wq, wnil, taken, outClosed, outSent,
                   cline, stdout, buf, file, fopen, stderr, ctitle, cres,
                   inputOk, createOk, badTitles, inOpen, exitCode>>

\* one pass of: for i := 0; i < *numWorkers; i++ { go <worker>(in, out, ack, ...) }
MainStartWorker ==
    /\ mainpc = "startWorkers"
    /\ started < numWorkers
    /\ wpc' = [wpc EXCEPT ![started + 1] = "recv"]
    /\ started' = started + 1
    /\ mainpc' = IF started + 1 < numWorkers THEN "startWorkers" ELSE "token"
    /\ UNCHANGED <<cflag, aflag, dflag, numWorkers, outputFilename, input, idx, held,
                   sent, acks, wq, wnil, taken, outClosed, outSent, cpc,
                   cline, stdout, buf, file, fopen, stderr, ctitle, cres,
                   inputOk, createOk, badTitles, inOpen, exitCode>>

\* the number of records the decoder makes of a stream
NumRecordsOf(in) == Len(in.pages) + (IF in.end = "truncated" THEN 1 ELSE 0)

\* a plausible slip: the sentinel loop entered whatever the worker count
AfterDecodeKill == "kill"

\* where main goes when the token loop ends, past the loops that run 0 times
AfterDecode == IF numWorkers <= 0 THEN "close" ELSE "kill"

\* a plausible slip: the decoder reads on without handing the page over
MainTokenAhead ==
    /\ mainpc = "token"
    /\ IF idx < NumRecordsOf(input)
       THEN /\ idx' = idx + 1
            /\ mainpc' = "token"
       ELSE /\ mainpc' = AfterDecode
            /\ UNCHANGED idx
    /\ UNCHANGED <<cflag, aflag, dflag, numWorkers, outputFilename, input, held,
                   started, sent, acks, wpc, wq, wnil, taken, outClosed, outSent, cpc,
                   cline, stdout, buf, file, fopen, stderr, ctitle, cres,
                   inputOk, createOk, badTitles, inOpen, exitCode>>

\* The token loop up to its next page element: decoder.Token() returns nil
\* at the end of the stream and at malformed markup (the error is dropped),
\* and DecodeElement's error is dropped too, so the page it was filling is
\* handed on as it is.
MainToken ==
    /\ mainpc = "token"
    /\ IF idx < Len(input.pages)
       THEN /\ held' = [id |-> idx + 1, page |-> input.pages[idx + 1]]
            /\ idx' = idx + 1
            /\ mainpc' = "send"
       ELSE IF input.end = "truncated" /\ idx = Len(input.pages)
       THEN /\ held' = [id |-> idx + 1, page |-> TruncatedPage]
            /\ idx' = idx + 1
            /\ mainpc' = "send"
       ELSE /\ mainpc' = AfterDecode
            /\ UNCHANGED <<held, idx>>
    /\ UNCHANGED <<cflag, aflag, dflag, numWorkers, outputFilename, input,
                   started, sent, acks, wpc, wq, wnil, taken, outClosed, outSent, cpc,
                   cline, stdout, buf, file, fopen, stderr, ctitle, cres,
                   inputOk, createOk, badTitles, inOpen, exitCode>>

\* in <- &p meets worker w's pp = <-in; the worker runs its loop body up to
\* its first send, its break or its next receive
MainSendPage(w) ==
    /\ mainpc = "send"
    /\ wpc[w] = "recv"
    /\ wq' = [wq EXCEPT ![w] = Tag(held.id, WorkerBody(held.page).lines)]
    /\ wpc' = [wpc EXCEPT ![w] = AfterBody(WorkerBody(held.page))]
    /\ stderr' = stderr \o Tag(held.id, WorkerBody(held.page).diag)
    /\ taken' = Append(taken, held.id)
    /\ held' = NoPage
    /\ mainpc' = "token"
    /\ UNCHANGED <<cflag, aflag, dflag, numWorkers, outputFilename, input, idx,
                   started, sent, acks, wnil, outClosed, outSent, cpc,
                   cline, stdout, buf, file, fopen, ctitle, cres,
                   inputOk, createOk, badTitles, inOpen, exitCode>>

\* the 1.1.1 shutdown: the output channel is closed right after the sentinels
MainSendNilThenClose(w) ==
    /\ mainpc = "kill"
    /\ sent < numWorkers
    /\ wpc[w] = "recv"
    /\ wpc' = [wpc EXCEPT ![w] = "ack"]
    /\ wnil' = [wnil EXCEPT ![w] = TRUE]
    /\ sent' = sent + 1
    /\ mainpc' = IF sent + 1 < numWorkers THEN "kill" ELSE "close"
    /\ UNCHANGED <<cflag, aflag, dflag, numWorkers, outputFilename, input, idx, held,
                   started, acks, wq, taken, outClosed, outSent, cpc,
                   cline, stdout, buf, file, fopen, stderr, ctitle, cres,
                   inputOk, createOk, badTitles, inOpen, exitCode>>

\* one pass of: for n := 0; n < *numWorkers; n++ { in <- nil }, meeting
\* worker w's pp = <-in; the worker breaks and reaches ack <- true
MainSendNil(w) ==
    /\ mainpc = "kill"
    /\ sent < numWorkers
    /\ wpc[w] = "recv"
    /\ wpc' = [wpc EXCEPT ![w] = "ack"]
    /\ wnil' = [wnil EXCEPT ![w] = TRUE]
    /\ sent' = sent + 1
    /\ mainpc' = IF sent + 1 < numWorkers THEN "kill" ELSE "wait"
    /\ UNCHANGED <<cflag, aflag, dflag, numWorkers, outputFilename, input, idx, held,
                   started, acks, wq, taken, outClosed, outSent, cpc,
                   cline, stdout, buf, file, fopen, stderr, ctitle, cres,
                   inputOk, createOk, badTitles, inOpen, exitCode>>

\* one pass of: for n := 0; n < *numWorkers; n++ { <-ack }, meeting worker
\* w's ack <- true, after which the worker function returns
MainRecvAck(w) ==
    /\ mainpc = "wait"
    /\ acks < numWorkers
    /\ wpc[w] = "ack"
    /\ wpc' = [wpc EXCEPT ![w] = "done"]
    /\ acks' = acks + 1
    /\ mainpc' = IF acks + 1 < numWorkers THEN "wait" ELSE "close"
    /\ UNCHANGED <<cflag, aflag, dflag, numWorkers, outputFilename, input, idx, held,
                   started, sent, wq, wnil, taken, outClosed, outSent, cpc,
                   cline, stdout, buf, file, fopen, stderr, ctitle, cres,
                   inputOk, createOk, badTitles, inOpen, exitCode>>

\* close(out)
MainClose ==
    /\ mainpc = "close"
    /\ outClosed' = TRUE
    /\ mainpc' = "return"
    /\ UNCHANGED <<cflag, aflag, dflag, numWorkers, outputFilename, input, idx, held,
                   started, sent, acks, wpc, wq, wnil, taken, outSent, cpc,
                   cline, stdout, buf, file, fopen, stderr, ctitle, cres,
                   inputOk, createOk, badTitles, inOpen, exitCode>>

\* main returns (the deferred xmlFile.Close() runs): the process exits with
\* status 0 and takes every goroutine with it
MainReturn ==
    /\ mainpc = "return"
    /\ mainpc' = "returned"
    /\ inOpen' = FALSE
    /\ exitCode' = 0
    /\ UNCHANGED <<cflag, aflag, dflag, numWorkers, outputFilename, input, idx, held,
                   started, sent, acks, wpc, wq, wnil, taken, outClosed, outSent, cpc,
                   cline, stdout, buf, file, fopen, stderr, ctitle, cres,
                   inputOk, createOk, badTitles>>

---------------------------------------------------------------------------
(* worker and collector                                                    *)

\* out <- &line in worker w meets the collector's receive in
\* `for line := range lines`
WorkerSend(w) ==
    /\ Alive
    /\ wpc[w] = "send"
    /\ cpc = "recv"
    /\ ~outClosed
    /\ cline' = Head(wq[w])
    /\ outSent' = Append(outSent, Head(wq[w]))
    /\ cpc' = "write"
    /\ wq' = [wq EXCEPT ![w] = Tail(wq[w])]
    /\ wpc' = [wpc EXCEPT ![w] = IF Tail(wq[w]) # <<>> THEN "send" ELSE "recv"]
    /\ UNCHANGED <<cflag, aflag, dflag, numWorkers, outputFilename, input, mainpc, idx,
                   held, started, sent, acks, wnil, taken, outClosed,
                   stdout, buf, file, fopen, stderr, ctitle, cres,
                   inputOk, createOk, badTitles, inOpen, exitCode>>

\* FileCollector: os.Create(filename), the deferred Close, bufio.NewWriter;
\* if err != nil { panic(err) }: a panic in a goroutine prints to the error
\* stream and ends the whole process with status 2
CollectorCreate ==
    /\ Alive
    /\ cpc = "create"
    /\ IF createOk
       THEN /\ fopen' = TRUE
            /\ file' = <<>>
            /\ cpc' = "recv"
            /\ UNCHANGED <<mainpc, stderr, exitCode>>
       ELSE /\ stderr' = Append(stderr, PanicMessage)
            /\ exitCode' = 2
            /\ mainpc' = "exited"
            /\ cpc' = "panicked"
            /\ UNCHANGED <<fopen, file>>
    /\ UNCHANGED <<cflag, aflag, dflag, numWorkers, outputFilename, input, idx,
                   held, started, sent, acks, wpc, wq, wnil, taken, outClosed, outSent,
                   cline, stdout, buf, ctitle, cres,
                   inputOk, createOk, badTitles, inOpen>>

\* fmt.Println(*line) in StdoutCollector; w.WriteString(*line + "\n") in
\* FileCollector, where the bufio.Writer passes its content on to the file
\* whenever it is full
CollectorWrite ==
    /\ Alive
    /\ cpc = "write"
    /\ IF outputFilename = <<>>
       THEN /\ stdout' = Append(stdout, cline)
            /\ UNCHANGED <<buf, file>>
       ELSE /\ UNCHANGED stdout
            /\ IF Len(buf) + 1 >= BufLines
               THEN file' = file \o Append(buf, cline) /\ buf' = <<>>
               ELSE buf' = Append(buf, cline) /\ UNCHANGED file
    /\ cline' = NoLine
    /\ cpc' = "recv"
    /\ UNCHANGED <<cflag, aflag, dflag, numWorkers, outputFilename, input, mainpc, idx,
                   held, started, sent, acks, wpc, wq, wnil, taken, outClosed, outSent,
                   fopen, stderr, ctitle, cres,
                   inputOk, createOk, badTitles, inOpen, exitCode>>

\* the range loop ends once the channel is closed
CollectorEnd ==
    /\ Alive
    /\ cpc = "recv"
    /\ outClosed
    /\ cpc' = IF outputFilename = <<>> THEN "done" ELSE "flush"
    /\ UNCHANGED <<cflag, aflag, dflag, numWorkers, outputFilename, input, mainpc, idx,
                   held, started, sent, acks, wpc, wq, wnil, taken, outClosed, outSent,
                   cline, stdout, buf, file, fopen, stderr, ctitle, cres,
                   inputOk, createOk, badTitles, inOpen, exitCode>>

\* w.Flush()
CollectorFlush ==
    /\ Alive
    /\ cpc = "flush"
    /\ file' = file \o buf
    /\ buf' = <<>>
    /\ cpc' = "closing"
    /\ UNCHANGED <<cflag, aflag, dflag, numWorkers, outputFilename, input, mainpc, idx,
                   held, started, sent, acks, wpc, wq, wnil, taken, outClosed, outSent,
                   cline, stdout, fopen, stderr, ctitle, cres,
                   inputOk, createOk, badTitles, inOpen, exitCode>>

\* the deferred output.Close()
CollectorClose ==
    /\ Alive
    /\ cpc = "closing"
    /\ fopen' = FALSE
    /\ cpc' = "done"
    /\ UNCHANGED <<cflag, aflag, dflag, numWorkers, outputFilename, input, mainpc, idx,
                   held, started, sent, acks, wpc, wq, wnil, taken, outClosed, outSent,
                   cline, stdout, buf, file, stderr, ctitle, cres,
                   inputOk, createOk, badTitles, inOpen, exitCode>>

Next ==
    \/ MainFlags
    \/ MainOpen
    \/ MainStartCollector
    \/ MainStartWorker
    \/ MainToken
    \/ \E w \in Workers : MainSendPage(w)
    \/ \E w \in Workers : MainSendNil(w)
    \/ \E w \in Workers : MainRecvAck(w)
    \/ MainClose
    \/ MainReturn
    \/ \E w \in Workers : WorkerSend(w)
    \/ CollectorCreate
    \/ CollectorWrite
    \/ CollectorEnd
    \/ CollectorFlush
    \/ CollectorClose

Spec == Init /\ [][Next]_vars

\* The same program in an environment where json.Marshal returns an error
\* for the records with one title.
FaultInit ==
    /\ \E f \in FlagCombos, n \in 1..MaxWorkers, e \in Environments, in \in Inputs :
           /\ PipeStart(f, n, e.o, in)
           /\ inputOk = e.inputOk
           /\ createOk = e.createOk
    /\ badTitles = {OkPage.title}
    /\ mainpc = "flags"
    /\ CanonIdle

FaultSpec == FaultInit /\ [][Next]_vars

\* The same program with every worker count -w accepts: flag.Int takes any
\* integer and main does not test it.
WorkerCounts == {-1, 0} \cup (1..MaxWorkers)

InitAnyWorkers ==
    /\ \E f \in FlagCombos, n \in WorkerCounts, e \in Environments, in \in Inputs :
           /\ PipeStart(f, n, e.o, in)
           /\ inputOk = e.inputOk
           /\ createOk = e.createOk
    /\ badTitles = {}
    /\ mainpc = "flags"
    /\ CanonIdle

SpecAnyWorkers == InitAnyWorkers /\ [][Next]_vars

---------------------------------------------------------------------------
(* wikikit 1.1.1, the concurrent converter without acknowledgments: the    *)
(* collector always prints to standard output, a worker function returns   *)
(* when it leaves its loop, and main closes the output channel right       *)
(* after the sentinels.  Flag parsing, the opening of the input, the       *)
(* worker-start loop, the token loop and the collector are the same code   *)
(* as in 1.1.2.                                                            *)

\* one pass of a worker's loop body; a failing json.Marshal meets
\* os.Exit(2), after a message in wikidataEncoder, without one in
\* vanillaConverter
Worker111Body(p) ==
    IF /\ Eligible(p) /\ MarshalFails(p)
       /\ \/ Strategy = "vanilla"
          \/ Strategy = "wikidata" /\ JsonDecode(p.text).res = "ok"
    THEN [lines |-> <<>>, brk |-> FALSE, exit |-> TRUE,
          diag |-> IF Strategy = "wikidata" THEN <<"marshal">> ELSE <<>>]
    ELSE [lines |-> WorkerBody(p).lines, brk |-> WorkerBody(p).brk, exit |-> FALSE,
          diag |-> WorkerBody(p).diag]

\* where the worker stands after its loop body: returned after a break, at
\* out <- &line with lines to send, else back at pp = <-in
After111Body(r) == IF r.brk THEN "done" ELSE IF r.lines # <<>> THEN "send" ELSE "recv"

Init111 ==
    /\ \E f \in FlagCombos, n \in 1..MaxWorkers, in \in Inputs : PipeStart(f, n, <<>>, in)
    /\ inputOk \in BOOLEAN
    /\ createOk = TRUE
    /\ badTitles = {}
    /\ mainpc = "flags"
    /\ CanonIdle

Main111Flags == MainFlags

Main111Open == MainOpen

\* go collect(lines)
Main111StartCollector ==
    /\ mainpc = "startCollector"
    /\ cpc' = "recv"
    /\ mainpc' = IF numWorkers <= 0 THEN "token" ELSE "startWorkers"
    /\ UNCHANGED <<cflag, aflag, dflag, numWorkers, outputFilename, input, idx, held,
                   started, sent, acks, wpc, wq, wnil, taken, outClosed, outSent,
                   cline, stdout, buf, file, fopen, stderr, ctitle, cres,
                   inputOk, createOk, badTitles, inOpen, exitCode>>

Main111StartWorker == MainStartWorker

\* where main goes when the token loop ends
After111Decode == IF numWorkers <= 0 THEN "close" ELSE "kill"

Main111Token ==
    /\ mainpc = "token"
    /\ IF idx < NumRecordsOf(input)
       THEN /\ held' = [id |-> idx + 1, page |-> PageOf(idx + 1)]
            /\ idx' = idx + 1
            /\ mainpc' = "send"
       ELSE /\ mainpc' = After111Decode
            /\ UNCHANGED <<held, idx>>
    /\ UNCHANGED <<cflag, aflag, dflag, numWorkers, outputFilename, input,
                   started, sent, acks, wpc, wq, wnil, taken, outClosed, outSent, cpc,
                   cline, stdout, buf, file, fopen, stderr, ctitle, cres,
                   inputOk, createOk, badTitles, inOpen, exitCode>>

\* pages <- &p meets worker w's pp = <-in; the worker runs its loop body up
\* to its first send, its break, its exit or its next receive
Main111SendPage(w) ==
    /\ mainpc = "send"
    /\ wpc[w] = "recv"
    /\ wq' = [wq EXCEPT ![w] = Tag(held.id, Worker111Body(held.page).lines)]
    /\ wpc' = [wpc EXCEPT ![w] = After111Body(Worker111Body(held.page))]
    /\ stderr' = stderr \o Tag(held.id, Worker111Body(held.page).diag)
    /\ taken' = Append(taken, held.id)
    /\ held' = NoPage
    /\ IF Worker111Body(held.page).exit
       THEN mainpc' = "exited" /\ exitCode' = 2
       ELSE mainpc' = "token" /\ UNCHANGED exitCode
    /\ UNCHANGED <<cflag, aflag, dflag, numWorkers, outputFilename, input, idx,
                   started, sent, acks, wnil, outClosed, outSent, cpc,
                   cline, stdout, buf, file, fopen, ctitle, cres,
                   inputOk, createOk, badTitles, inOpen>>

\* a plausible slip: the loop over the workers forgotten, one sentinel only
Main111SendNilOnce(w) ==
    /\ mainpc = "kill"
    /\ sent < numWorkers
    /\ wpc[w] = "recv"
    /\ wpc' = [wpc EXCEPT ![w] = "done"]
    /\ wnil' = [wnil EXCEPT ![w] = TRUE]
    /\ sent' = sent + 1
    /\ mainpc' = "close"
    /\ UNCHANGED <<cflag, aflag, dflag, numWorkers, outputFilename, input, idx, held,
                   started, acks, wq, taken, outClosed, outSent, cpc,
                   cline, stdout, buf, file, fopen, stderr, ctitle, cres,
                   inputOk, createOk, badTitles, inOpen, exitCode>>

\* one pass of: for n := 0; n < *numWorkers; n++ { pages <- nil }, meeting
\* worker w's pp = <-in; the worker breaks and its function returns; after
\* the last pass main stands at close(lines)
Main111SendNil(w) ==
    /\ mainpc = "kill"
    /\ sent < numWorkers
    /\ wpc[w] = "recv"
    /\ wpc' = [wpc EXCEPT ![w] = "done"]
    /\ wnil' = [wnil EXCEPT ![w] = TRUE]
    /\ sent' = sent + 1
    /\ mainpc' = IF sent + 1 < numWorkers THEN "kill" ELSE "close"
    /\ UNCHANGED <<cflag, aflag, dflag, numWorkers, outputFilename, input, idx, held,
                   started, acks, wq, taken, outClosed, outSent, cpc,
                   cline, stdout, buf, file, fopen, stderr, ctitle, cres,
                   inputOk, createOk, badTitles, inOpen, exitCode>>

Main111Close == MainClose

Main111Return == MainReturn

\* out <- &line in worker w: on a closed channel the send panics, which
\* ends the process with status 2; else it meets the collector's receive
Worker111Send(w) ==
    /\ Alive
    /\ wpc[w] = "send"
    /\ outClosed \/ cpc = "recv"
    /\ IF outClosed
       THEN /\ wpc' = [wpc EXCEPT ![w] = "panicked"]
            /\ stderr' = Append(stderr, PanicMessage)
            /\ exitCode' = 2
            /\ mainpc' = "exited"
            /\ UNCHANGED <<cline, outSent, cpc, wq>>
       ELSE /\ cline' = Head(wq[w])
            /\ outSent' = Append(outSent, Head(wq[w]))
            /\ cpc' = "write"
            /\ wq' = [wq EXCEPT ![w] = Tail(wq[w])]
            /\ wpc' = [wpc EXCEPT ![w] = IF Tail(wq[w]) # <<>> THEN "send" ELSE "recv"]
            /\ UNCHANGED <<stderr, exitCode, mainpc>>
    /\ UNCHANGED <<cflag, aflag, dflag, numWorkers, outputFilename, input, idx,
                   held, started, sent, acks, wnil, taken, outClosed,
                   stdout, buf, file, fopen, ctitle, cres,
                   inputOk, createOk, badTitles, inOpen>>

Collect111Write == CollectorWrite

Collect111End == CollectorEnd

Next111 ==
    \/ Main111Flags
    \/ Main111Open
    \/ Main111StartCollector
    \/ Main111StartWorker
    \/ Main111Token
    \/ \E w \in Workers : Main111SendPage(w)
    \/ \E w \in Workers : Main111SendNil(w)
    \/ Main111Close
    \/ Main111Return
    \/ \E w \in Workers : Worker111Send(w)
    \/ Collect111Write
    \/ Collect111End

Spec111 == Init111 /\ [][Next111]_vars

---------------------------------------------------------------------------
(* wikikit 1.1.0, the sequential converter: the token loop of its main     *)
(* does for each page element what the workers of 1.1.2 do, and prints     *)
(* the lines itself.                                                       *)

\* One pass of the body of `if inElement == "page"`.  Under -d a body that
\* decodes to io.EOF meets `break`, which leaves the enclosing switch
\* statement (not the for loop), so the page is passed over and the loop
\* goes on; a failing json.Marshal meets os.Exit(2).
SequentialBody(p) ==
    IF ~Eligible(p) THEN [lines |-> <<>>, diag |-> <<>>, exit |-> FALSE]
    ELSE IF cflag # <<>>
         THEN [lines |-> CategoryLines(p, cflag), diag |-> <<>>, exit |-> FALSE]
    ELSE IF aflag # <<>>
         THEN [lines |-> AuthorityLines(p, aflag), diag |-> <<>>, exit |-> FALSE]
    ELSE IF dflag
         THEN LET r == JsonDecode(p.text)
              IN  IF r.res = "eof" THEN [lines |-> <<>>, diag |-> <<>>, exit |-> FALSE]
                  ELSE IF r.res = "err" THEN [lines |-> <<>>, diag |-> <<"err">>, exit |-> FALSE]
                  ELSE IF MarshalFails(p) THEN [lines |-> <<>>, diag |-> <<>>, exit |-> TRUE]
                  ELSE [lines |-> <<WikidataLine(p, r.val)>>, diag |-> <<>>, exit |-> FALSE]
    ELSE IF MarshalFails(p) THEN [lines |-> <<>>, diag |-> <<>>, exit |-> TRUE]
    ELSE [lines |-> <<VanillaLine(p)>>, diag |-> <<>>, exit |-> FALSE]

\* the token loop over the first n records of the stream: the lines
\* printed, the records that yielded no line, and whether the process has
\* exited on the way
RECURSIVE SequentialRun(_)
SequentialRun(n) ==
    IF n = 0 THEN [lines |-> <<>>, skipped |-> {}, exited |-> FALSE]
    ELSE LET r == SequentialRun(n - 1)
             b == SequentialBody(PageOf(n))
         IN  IF r.exited THEN r
             ELSE [lines   |-> r.lines \o b.lines,
                   skipped |-> r.skipped \cup (IF b.lines = <<>> THEN {n} ELSE {}),
                   exited  |-> b.exit]

---------------------------------------------------------------------------
(* CanonicalizeTitle on its own: applied to a title, then to its result.   *)

TitleChars == {"A", "a", " ", "_", ":", "%"}

Titles == UNION {[1..k -> TitleChars] : k \in 0..MaxTitleLen}

PipeOff ==
    /\ PipeStart([c |-> <<>>, a |-> <<>>, d |-> FALSE], 0, <<>>, [pages |-> <<>>, end |-> "nil"])
    /\ inputOk = TRUE /\ createOk = TRUE /\ badTitles = {}
    /\ mainpc = "off"

CanonInit ==
    /\ PipeOff
    /\ ctitle \in Titles
    /\ cres = <<>>

CanonFirst ==
    /\ mainpc = "off"
    /\ cres = <<>>
    /\ cres' = <<CanonicalizeTitle(ctitle)>>
    /\ UNCHANGED <<ctitle, pipevars>>

CanonAgain ==
    /\ mainpc = "off"
    /\ Len(cres) = 1
    /\ cres' = Append(cres, CanonicalizeTitle(cres[1]))
    /\ UNCHANGED <<ctitle, pipevars>>

CanonNext == CanonFirst \/ CanonAgain

CanonSpec == CanonInit /\ [][CanonNext]_vars

---------------------------------------------------------------------------
(* What the properties below speak of.                                     *)

\* what has reached the configured destination
Destination == IF outputFilename = <<>> THEN stdout ELSE file

\* the number of records the decoder hands to intake for this input
NumRecords == Len(input.pages) + (IF input.end = "truncated" THEN 1 ELSE 0)

Payloads(ls) == [k \in 1..Len(ls) |-> ls[k].out]

BagOfSeq(s) == [x \in Range(s) |-> Cardinality({i \in 1..Len(s) : s[i] = x})]

\* the lines the selected worker function yields for the records of the
\* input, record by record
RECURSIVE ReferenceLines(_)
ReferenceLines(n) ==
    IF n = 0 THEN <<>> ELSE ReferenceLines(n - 1) \o WorkerBody(PageOf(n)).lines

\* Some goroutine can take a step: main is not blocked on a channel, or a
\* channel operation has its partner, or the collector is between two
\* receives.  (This is ENABLED Next, written out.)
CanStep ==
    \/ mainpc \in {"flags", "open", "startCollector", "startWorkers", "token", "close", "return"}
    \/ mainpc \in {"send", "kill"} /\ \E w \in Workers : wpc[w] = "recv"
    \/ mainpc = "wait" /\ \E w \in Workers : wpc[w] = "ack"
    \/ Alive /\ cpc \in {"create", "write", "flush", "closing"}
    \/ Alive /\ cpc = "recv" /\ (outClosed \/ \E w \in Workers : wpc[w] = "send")

\* the process has ended
Exited == mainpc \in {"returned", "exited"}

\* the run is over: the process has ended, or nothing can move any more
Finished == Exited \/ ~CanStep

\* no collector, no worker and no decoding has been started
NothingStarted ==
    /\ cpc = "off"
    /\ \A w \in Workers : wpc[w] = "off"
    /\ started = 0
    /\ idx = 0 /\ held = NoPage /\ taken = <<>>

\* the flags are accepted and both files can be opened
Regular == inputOk /\ createOk /\ ~(cflag # <<>> /\ aflag # <<>>)

\* the lines sent so far that come from the record with the given id
LinesOf(id) == Payloads(SelectSeq(outSent, LAMBDA l : l.src = id))

\* a worker is still sending the lines of the record with the given id
Pending(id) == \E w \in Workers : \E k \in 1..Len(wq[w]) : wq[w][k].src = id

\* the second field of a TSV line that begins with the given title
SecondField(line, title) == SubSeq(line.s, Len(title) + 2, Len(line.s))

\* the body holds a double-brace template that begins with the marker
HasTemplate(text, marker) == \E i \in 1..Len(text) : AuthorityMatchEnd(text, i, marker) # 0

\* the lines the collector has written: printed, or handed to the
\* bufio.Writer of the output file
Written == IF outputFilename = <<>> THEN stdout ELSE file \o buf

\* The line-feed characters in the bytes of a line: a TSV line is the text
\* as it is; json.Marshal writes a line feed inside a string as the two
\* characters \ and n, so a JSON line holds none.
RawNewlines(out) ==
    IF out.kind = "tsv" THEN Cardinality({i \in 1..Len(out.s) : out.s[i] = "\n"}) ELSE 0

\* the number of newline-delimited records in what was written, each line
\* being followed by one line feed
RECURSIVE RecordsIn(_)
RecordsIn(ls) ==
    IF ls = <<>> THEN 0 ELSE 1 + RawNewlines(Head(ls).out) + RecordsIn(Tail(ls))

\* the records decoded whose processing has not been completed: decoded,
\* and not yet received by a worker or with lines the worker has still to
\* send
InFlight == idx - Cardinality({k \in 1..Len(taken) : ~Pending(taken[k])})

\* the title names one of the excluded namespaces, in any letter case
InExcludedNamespace(title) == FilterMatch(ReplaceSpaces(ToLower(title)))

\* no character of the title is one that percent-encoding escapes
OnlyUnescaped(title) == \A i \in 1..Len(title) : title[i] \in Unreserved \cup {" "}

---------------------------------------------------------------------------
(* The claims.                                                             *)

\* C1: whenever the outtake is closed, main has received exactly numWorkers
\* acknowledgments and every worker has returned with nothing left to send,
\* so no worker sends on the closed channel.
C1_CloseAfterAllAcks ==
    outClosed =>
        /\ acks = numWorkers
        /\ \A w \in 1..numWorkers : wpc[w] = "done" /\ wq[w] = <<>>

C1_Witness == outClosed /\ numWorkers = MaxWorkers /\ Len(outSent) >= 2

\* C2: when main has returned from a run whose input it could open, every
\* line sent on the outtake has reached the destination and the collector
\* has finished (for a file: flushed and closed).
C2_ExitAfterCollector ==
    (mainpc = "returned" /\ inputOk) =>
        /\ Destination = outSent
        /\ cpc = "done"
        /\ outputFilename # <<>> => (buf = <<>> /\ ~fopen)

\* C3: for every input, strategy and worker count the run cannot get stuck:
\* as long as main has not returned, some step is possible.  (Stated for the
\* streams that end without a broken page element, where it already fails.)
C3_NoDeadlock == input.end = "nil" => (Exited \/ CanStep)

\* C4: under Wikidata-JSON an eligible record whose body fails to parse
\* gets a diagnostic and no output line, and no worker leaves its loop
\* without having received a sentinel.  (Stated for the streams that end
\* without a broken page element, where it already fails.)
C4_ParseFailureSkips ==
    input.end = "nil" =>
    /\ \A w \in Workers : wpc[w] \in {"ack", "done"} => wnil[w]
    /\ Strategy = "wikidata" =>
           \A k \in 1..Len(taken) :
               LET p == PageOf(taken[k])
               IN  (Eligible(p) /\ JsonDecode(p.text).res # "ok") =>
                       /\ \E d \in Range(stderr) : d.src = taken[k]
                       /\ \A l \in Range(outSent) : l.src # taken[k]

\* C5: once the run is over, the multiset of lines at the destination is
\* the multiset the strategy yields for the records of the input, whatever
\* the worker count and the interleaving.  (Stated for runs that start up
\* without failure on streams that end without a broken page element, where
\* it already fails.)
C5_OutputInvariance ==
    (input.end = "nil" /\ Regular /\ Finished) => BagOfSeq(Payloads(Destination)) = BagOfSeq(ReferenceLines(NumRecords))

\* C6: main receives at most numWorkers acknowledgments, and once it has
\* received the last one the collector writes nothing more.
C6_NoWriteAfterLastAck ==
    /\ [](acks <= numWorkers)
    /\ [][acks = numWorkers => UNCHANGED <<stdout, buf, file>>]_vars

\* C7: no line, sent or waiting to be sent, comes from a record whose
\* redirect title is not empty.
C7_NoOutputForRedirects ==
    /\ \A k \in 1..Len(outSent) : PageOf(outSent[k].src).redir = <<>>
    /\ \A w \in Workers : \A k \in 1..Len(wq[w]) : PageOf(wq[w][k].src).redir = <<>>

C7_Witness ==
    /\ mainpc = "returned"
    /\ outSent # <<>>
    /\ \E k \in 1..Len(taken) : PageOf(taken[k]).redir # <<>>

\* C8: a record whose title names an excluded namespace has a canonical
\* title that the filter matches, and no line comes from it.
C8_NoOutputForNamespaces ==
    /\ \A k \in 1..Len(taken) :
           InExcludedNamespace(PageOf(taken[k]).title) =>
               FilterMatch(CanonicalizeTitle(PageOf(taken[k]).title))
    /\ \A k \in 1..Len(outSent) : ~InExcludedNamespace(PageOf(outSent[k].src).title)

\* C9 as claimed: canonicalizing the canonical title changes nothing, for
\* every title.
C9_Idempotent == Len(cres) = 2 => cres[2] = cres[1]

\* C9 as amended: canonicalizing the canonical title changes nothing, for
\* every title made of letters, digits, spaces and - _ . ~ only.
C9_IdempotentOnUnescaped == (Len(cres) = 2 /\ OnlyUnescaped(ctitle)) => cres[2] = cres[1]

C9_Witness ==
    /\ Len(cres) = 2
    /\ OnlyUnescaped(ctitle)
    /\ {" ", "A"} \subseteq Range(ctitle)

\* C10: every record handed to intake is a completely decoded page element:
\* nothing is handed on from the element in which the stream broke off.
C10_NoPartialRecord ==
    /\ mainpc = "send" => held.id <= Len(input.pages)
    /\ \A k \in 1..Len(taken) : taken[k] <= Len(input.pages)

\* C11: when the input file cannot be opened, nothing of the pipeline is
\* ever started, and the process ends with a message on the error stream and
\* a non-zero exit status.
C11_InputOpenFailureFatal ==
    (~inputOk /\ mainpc \notin {"flags", "open"}) =>
        /\ NothingStarted
        /\ Exited
        /\ exitCode > 0
        /\ stderr # <<>>

\* C12: when the output file cannot be created, the process ends with a
\* report and a non-zero exit status, and at the moment the creation fails
\* no worker has been started or has received a record and the decoder has
\* handed no record to intake.
C12_OutputOpenFailureFirst ==
    (outputFilename # <<>> /\ ~createOk /\ inputOk) =>
        /\ Exited => (exitCode > 0 /\ stderr # <<>>)
        /\ cpc = "panicked" =>
               /\ \A w \in Workers : wpc[w] = "off"
               /\ started = 0
               /\ idx = 0 /\ held = NoPage /\ taken = <<>>

\* C13: when both markers are given, the process ends with the
\* configuration message on the error stream and exit status 1, without
\* having opened the input file, created the output file or started the
\* collector, a worker or the decoding.
C13_BothMarkersRejected ==
    (cflag # <<>> /\ aflag # <<>>) =>
        /\ mainpc \in {"flags", "exited"}
        /\ NothingStarted
        /\ ~inOpen /\ ~fopen /\ file = <<>> /\ stdout = <<>>
        /\ mainpc = "exited" => (exitCode = 1 /\ stderr = <<ConfigMessage>>)

C13_Witness == cflag # <<>> /\ aflag # <<>> /\ mainpc = "exited" /\ exitCode = 1

\* C14: when the wikidata toggle is given together with a marker, the run
\* is rejected: the process ends with a non-zero exit status and no
\* collector, worker or decoding is started.
C14_SelectorsExclusive ==
    (dflag /\ (cflag # <<>> \/ aflag # <<>>) /\ inputOk) =>
        /\ NothingStarted
        /\ Exited => exitCode > 0

\* C15: under Category-TSV the lines sent for an eligible record are, in
\* match order, one 'title<TAB>category' per match of the reference pattern,
\* the category being the capture trimmed and then cut before its first
\* pipe; no category holds a pipe; once the worker is done with the record
\* there are as many lines as matches.  The body
\* "1 [[C:A|B]][[C: B ]]{{N<TAB>A}}" of the page "A b" yields "A b<TAB>A"
\* and "A b<TAB>B".
C15_CategoryLines ==
    Strategy = "category" =>
        \A k \in 1..Len(taken) :
            LET p    == PageOf(taken[k])
                got  == LinesOf(taken[k])
                caps == FindAllCategories(p.text, 1, cflag)
            IN  Eligible(p) =>
                    /\ Len(got) <= Len(caps)
                    /\ \A j \in 1..Len(got) :
                           /\ got[j] = TsvLine(p.title, CutAtPipe(TrimSpace(caps[j])))
                           /\ "|" \notin Range(SecondField(got[j], p.title))
                    /\ ~Pending(taken[k]) => Len(got) = Len(caps)
                    /\ (p = OkPage /\ ~Pending(taken[k])) =>
                           got = <<TsvLine(<<"A", " ", "b">>, <<"A">>),
                                   TsvLine(<<"A", " ", "b">>, <<"B">>)>>

C15_Witness ==
    /\ Strategy = "category"
    /\ \E k \in 1..Len(taken) :
           /\ PageOf(taken[k]) = OkPage
           /\ ~Pending(taken[k])
           /\ Len(LinesOf(taken[k])) = 2

\* C16: under Authority-TSV at most one line is sent for an eligible
\* record; once the worker is done with the record there is exactly one iff
\* the body holds a double-brace template that begins with the marker, and
\* the line is 'title<TAB>' followed by the first such template with its
\* tabs removed.  With the marker "N", "...{{N<TAB>A}}" yields "{{NA}}",
\* "{{n<LF>A}}" yields itself, and an empty body yields nothing.
C16_AuthorityLine ==
    Strategy = "authority" =>
        \A k \in 1..Len(taken) :
            LET p   == PageOf(taken[k])
                got == LinesOf(taken[k])
            IN  Eligible(p) =>
                    /\ Len(got) <= 1
                    /\ got # <<>> =>
                           /\ HasTemplate(p.text, aflag)
                           /\ got[1] = TsvLine(p.title, StripTabs(FindAuthority(p.text, aflag)))
                           /\ "\t" \notin Range(SecondField(got[1], p.title))
                    /\ (~Pending(taken[k]) /\ HasTemplate(p.text, aflag)) => Len(got) = 1
                    /\ (p = OkPage /\ got # <<>>) =>
                           got[1] = TsvLine(<<"A", " ", "b">>, <<"{", "{", "N", "A", "}", "}">>)
                    /\ (p = MultilinePage /\ got # <<>>) =>
                           got[1] = TsvLine(<<"G">>, <<"{", "{", "n", "\n", "A", "}", "}">>)
                    /\ p \in {EmptyPage, BrokenPage} => got = <<>>

C16_Witness ==
    /\ Strategy = "authority"
    /\ mainpc = "returned"
    /\ \E k \in 1..Len(taken) : PageOf(taken[k]) = OkPage /\ Len(LinesOf(taken[k])) = 1
    /\ \E k \in 1..Len(taken) : PageOf(taken[k]) = EmptyPage

\* C17: under Vanilla-JSON a record a worker has received and is done with
\* has yielded one line if it is eligible, the record with its canonical
\* title filled in, and none if it is not; when main has returned, the
\* number of lines sent is the number of eligible records of the input.
C17_VanillaOneLine ==
    (Strategy = "vanilla" /\ inputOk) =>
        /\ \A k \in 1..Len(taken) :
               LET p   == PageOf(taken[k])
                   got == LinesOf(taken[k])
               IN  ~Pending(taken[k]) =>
                       IF Eligible(p)
                       THEN got = << [kind |-> "vanilla", title |-> p.title,
                                      ctitle |-> CanonicalizeTitle(p.title),
                                      redirect |-> p.redir, text |-> p.text] >>
                       ELSE got = <<>>
        /\ mainpc = "returned" =>
               Len(outSent) = Cardinality({i \in 1..NumRecords : Eligible(PageOf(i))})

C17_Witness ==
    /\ Strategy = "vanilla"
    /\ mainpc = "returned"
    /\ Len(taken) = 2
    /\ Len(outSent) = 1

\* C18: main pushes at most numWorkers sentinels, one per worker, and the
\* first only when every decoded record has been received; a worker that
\* has left its loop has nothing left to send; and when the run is over
\* every worker has received its sentinel and its acknowledgment has been
\* received.  (Stated for runs that start up without failure on streams
\* that end without a broken page element.)
C18_SentinelProtocol ==
    (Regular /\ input.end = "nil") =>
        /\ sent <= numWorkers
        /\ sent = Cardinality({w \in Workers : wnil[w]})
        /\ sent > 0 => (idx = Len(input.pages) /\ Len(taken) = idx /\ held = NoPage)
        /\ \A w \in Workers : wpc[w] \in {"ack", "done"} => wq[w] = <<>>
        /\ acks = Cardinality({w \in Workers : wpc[w] = "done"})
        /\ Finished =>
               /\ sent = numWorkers
               /\ \A w \in 1..numWorkers : wnil[w] /\ wpc[w] = "done"

\* C19: the records received by workers are the records 1, 2, 3, ... of the
\* stream, each once and in this order, main holding at most the next one;
\* and when the run is over every record of the stream has been received.
\* (Stated for runs that start up without failure on streams that end
\* without a broken page element.)
C19_ExactlyOnce ==
    (Regular /\ input.end = "nil") =>
        /\ taken = [k \in 1..Len(taken) |-> k]
        /\ Len(taken) = IF mainpc = "send" THEN idx - 1 ELSE idx
        /\ mainpc = "send" => held.id = idx
        /\ Finished => Len(taken) = Len(input.pages)

\* C20: what the collector has written, with the line it holds, is what
\* was sent on the outtake, in the order of the sends, so that each
\* worker's lines keep their order; with one worker the written lines are
\* in the order of their records; and what was written holds as many
\* newline-delimited records as lines.
C20_WrittenInOrder ==
    inputOk =>
        /\ Written \o (IF cpc = "write" THEN <<cline>> ELSE <<>>) = outSent
        /\ numWorkers = 1 =>
               \A i, j \in 1..Len(Written) : i < j => Written[i].src <= Written[j].src
        /\ RecordsIn(Written) = Len(Written)

\* the record fails to serialize: it is eligible, the selected strategy
\* builds a JSON line from it (after a successful parse of the body, under
\* Wikidata-JSON), and json.Marshal returns an error for it
FailsToSerialize(p) ==
    /\ Eligible(p)
    /\ MarshalFails(p)
    /\ \/ Strategy = "vanilla"
       \/ Strategy = "wikidata" /\ JsonDecode(p.text).res = "ok"

\* C21: a record that fails to serialize yields no line and one diagnostic;
\* the worker that received it goes back to receiving, main goes on
\* decoding, and the process is not ended by it.
C21_SerializationRecoverable ==
    /\ [](\A k \in 1..Len(taken) :
             FailsToSerialize(PageOf(taken[k])) =>
                 /\ LinesOf(taken[k]) = <<>>
                 /\ ~Pending(taken[k])
                 /\ Cardinality({i \in 1..Len(stderr) : stderr[i].src = taken[k]}) = 1)
    /\ [][(mainpc = "send" /\ FailsToSerialize(held.page) /\ taken' # taken) =>
             /\ \A w \in Workers : wpc[w] = "recv" => wpc'[w] = "recv"
             /\ mainpc' = "token"
             /\ exitCode' = -1]_vars

C21_Witness ==
    /\ mainpc = "returned"
    /\ Len(taken) = 2
    /\ FailsToSerialize(PageOf(taken[1]))
    /\ LinesOf(taken[2]) # <<>>

\* C22: the records decoded and not yet completely processed are the one
\* main is handing over, if any, and the ones whose lines a worker is still
\* sending (while the process lives); there are at most numWorkers + 1 of
\* them, however many records the stream has.
C22_BoundedInFlight ==
    /\ Alive => InFlight = (IF mainpc = "send" THEN 1 ELSE 0)
                             + Cardinality({w \in Workers : wpc[w] = "send"})
    /\ InFlight <= numWorkers + 1

C22_Witness == numWorkers = 1 /\ InFlight = 2 /\ idx = 3

\* C23: with one worker, when the run is over, the lines sent to the
\* collector are the lines the sequential converter prints for the same
\* stream and flags, in the same order, and the records that yielded no
\* line are the same.  (Stated for runs that start up without failure.)
C23_RefinesSequential ==
    (numWorkers = 1 /\ Regular /\ Finished) =>
        /\ Payloads(outSent) = SequentialRun(NumRecords).lines
        /\ {id \in 1..NumRecords : LinesOf(id) = <<>>} = SequentialRun(NumRecords).skipped

\* C24: in 1.1.1, when the output channel is closed, every worker has
\* received its sentinel and returned with nothing left to send, and every
\* line of every record a worker received has been received by the
\* collector; no worker ever sends on the closed channel.
C24_NoSendAfterEarlyClose ==
    /\ \A w \in Workers : wpc[w] # "panicked"
    /\ outClosed =>
           /\ sent = numWorkers
           /\ \A w \in 1..numWorkers : wpc[w] = "done" /\ wq[w] = <<>>
           /\ \A k \in 1..Len(taken) :
                  LinesOf(taken[k]) = Worker111Body(PageOf(taken[k])).lines

C24_Witness ==
    /\ outClosed
    /\ acks = 0
    /\ numWorkers = MaxWorkers
    /\ Len(taken) = 2
    /\ Len(outSent) >= 3

\* C25: with a worker count of 0 or less no worker is ever started, no
\* sentinel is pushed and no acknowledgment is received.  If the stream has
\* a page element, main gets no further than the hand-over of the first
\* record, which nobody receives, and the outtake is never closed; if it has
\* none, the run ends with the outtake closed and nothing output.
C25_NoWorkers ==
    numWorkers <= 0 =>
        /\ \A w \in Workers : wpc[w] = "off"
        /\ started = 0 /\ sent = 0 /\ acks = 0
        /\ taken = <<>> /\ outSent = <<>>
        /\ mainpc \notin {"startWorkers", "kill", "wait"}
        /\ (inputOk /\ NumRecords >= 1) =>
               /\ ~outClosed
               /\ mainpc \notin {"close", "return", "returned"}
               /\ idx <= 1
               /\ mainpc = "send" => held.id = 1
        /\ (Regular /\ NumRecords = 0 /\ Finished) =>
               /\ mainpc = "returned"
               /\ outClosed
               /\ Destination = <<>>

C25_Witness ==
    /\ numWorkers <= 0
    /\ mainpc = "send"
    /\ cpc = "recv"
    /\ ~CanStep

=============================================================================
